---- MODULE Spec2Model ----
(***************************************************************************)
(* State-machine model of the subscription-cancellation wizard             *)
(* (src/src/components/CancellationFlow.tsx).  One action per event        *)
(* handler of the component; the state is the component's React state      *)
(* (currentStep, downsellVariant, stepHistory, formData) and the two props *)
(* that drive it (isOpen, userId).                                         *)
(*                                                                         *)
(* Text values (userId, feedback, visaType, reasonDetails) are sequences   *)
(* of one-character strings, so that trimming, length and number parsing   *)
(* are computed character by character as the code does.  The answers      *)
(* picked from option buttons are strings, '' being the unset value.       *)
(* A boolean | null field holds one of NULL, "true", "false".              *)
(*                                                                         *)
(* seen is a history variable, no state of the component: it records the   *)
(* variant shown on the first visit of offer in the session that is open   *)
(* and the variant assigned in the first session opened for each userId.   *)
(***************************************************************************)
EXTENDS Integers, Sequences, FiniteSets, TLC

VARIABLES isOpen, userId, currentStep, downsellVariant, stepHistory, formData,
          effectDeps, seen, subscriptionStatus, cancellations, userSubscription

vars ==
  <<isOpen, userId, currentStep, downsellVariant, stepHistory, formData,
    effectDeps, seen,
    subscriptionStatus, cancellations, userSubscription>>

\* ------------------------------------------------------------------ bounds

\* Longest navigation history explored (the offer loop makes it unbounded).
MaxHist == 5

\* The longest history explored for the still-looking loop.
MaxLoop == 10

\* ------------------------------------------------------------- data types

NULL == "null"

FlowStep ==
  { "initial", "congrats-form", "feedback-form", "visa-help", "all-done",
    "founder-message", "offer", "offer-accepted", "usage-questions",
    "detailed-reasons", "sorry-to-go" }

RolesOptions == { "0", "1-5", "6-20", "20+" }

InterviewOptions == { "0", "1-2", "3-5", "5+" }

reasonOptions ==
  { "too-expensive", "platform-not-helpful", "not-enough-jobs",
    "decided-not-to-move", "other" }

\* The value of formData after construction and after resetToInitial.
EmptyFormData ==
  [ foundJob |-> NULL,
    usedMigrateMate |-> NULL,
    rolesApplied |-> "",
    companiesEmailed |-> "",
    companiesInterviewed |-> "",
    feedback |-> <<>>,
    visaHelp |-> NULL,
    visaType |-> <<>>,
    usageRolesApplied |-> "",
    usageCompaniesEmailed |-> "",
    usageCompaniesInterviewed |-> "",
    cancellationReason |-> "",
    reasonDetails |-> <<>>,
    congratsError |-> "",
    usageError |-> "",
    reasonError |-> "",
    detailsError |-> "",
    visaError |-> "" ]

\* An absent userId prop (undefined) and a present one.
NoUser == [ present |-> FALSE, chars |-> <<>> ]

User(s) == [ present |-> TRUE, chars |-> s ]

\* ------------------------------------------------------- string functions

Rep(c, n) == [ i \in 1..n |-> c ]

Digits == { "0", "1", "2", "3", "4", "5", "6", "7", "8", "9" }

\* A character is a string of one character; the characters that have no
\* escape in a string are named by their code point.
NBSP == "U+00A0"

\* WhiteSpace and LineTerminator of ECMAScript, the characters that trim()
\* strips and parseFloat skips: TAB, LF, VT, FF, CR, SP, NBSP, the other
\* space separators, LS, PS and the byte order mark.
WhiteSpace ==
  { "\t", "\n", "U+000B", "\f", "\r", " ", NBSP, "U+1680", "U+2000", "U+2001",
    "U+2002", "U+2003", "U+2004", "U+2005", "U+2006", "U+2007", "U+2008",
    "U+2009", "U+200A", "U+2028", "U+2029", "U+202F", "U+205F", "U+3000",
    "U+FEFF" }

IsWhiteSpace(c) == c \in WhiteSpace

\* String.prototype.trim() === '' : every character is white space.
TrimIsEmpty(s) == \A i \in 1..Len(s) : IsWhiteSpace(s[i])

\* The string without its leading white space.
RECURSIVE SkipWhiteSpace(_)
SkipWhiteSpace(s) ==
  IF s # <<>> /\ IsWhiteSpace(Head(s)) THEN SkipWhiteSpace(Tail(s)) ELSE s

IsPrefix(p, s) == Len(p) <= Len(s) /\ SubSeq(s, 1, Len(p)) = p

InfinityLit == << "I", "n", "f", "i", "n", "i", "t", "y" >>

\* isNaN(parseFloat(s)): parseFloat skips leading white space and reads the
\* longest prefix that is a decimal literal (optional sign, then Infinity,
\* digits, or a dot followed by a digit); it is NaN when there is none.
ParseFloatIsNaN(s) ==
  LET t == SkipWhiteSpace(s)
      u == IF t # <<>> /\ Head(t) \in { "+", "-" } THEN Tail(t) ELSE t
  IN  ~ \/ (u # <<>> /\ Head(u) \in Digits)
        \/ (Len(u) >= 2 /\ u[1] = "." /\ u[2] \in Digits)
        \/ IsPrefix(InfinityLit, u)

\* charCodeAt(0) of the characters used in user identifiers.
CharCode ==
  ("a" :> 97) @@ ("b" :> 98) @@ ("c" :> 99) @@ ("d" :> 100) @@ ("1" :> 49)

\* userId.split('').reduce((acc, char) => acc + char.charCodeAt(0), 0)
RECURSIVE SumCharCodes(_)
SumCharCodes(s) ==
  IF s = <<>> THEN 0 ELSE CharCode[Head(s)] + SumCharCodes(Tail(s))

\* Mutant: the parity test is inverted.
AssignedVariantsSwapped(u) ==
  IF u.present /\ u.chars # <<>>
  THEN { IF SumCharCodes(u.chars) % 2 = 0 THEN "B" ELSE "A" }
  ELSE { "A", "B" }

\* Mutant: the hash is the code of the first character alone.
AssignedVariantsFirstChar(u) ==
  IF u.present /\ u.chars # <<>>
  THEN { IF CharCode[Head(u.chars)] % 2 = 0 THEN "A" ELSE "B" }
  ELSE { "A", "B" }

\* Mutant: the variant is drawn at random for every user.
AssignedVariantsAlwaysRandom(u) == { "A", "B" }

\* Mutant: without a userId no variant is assigned.
AssignedVariantsNoFallback(u) ==
  IF u.present /\ u.chars # <<>>
  THEN { IF SumCharCodes(u.chars) % 2 = 0 THEN "A" ELSE "B" }
  ELSE { "undefined" }

\* Mutant: only an absent userId is drawn at random; "" is hashed, to 0.
AssignedVariantsHashesEmpty(u) ==
  IF u.present
  THEN { IF SumCharCodes(u.chars) % 2 = 0 THEN "A" ELSE "B" }
  ELSE { "A", "B" }

\* The variants the effect can assign for a userId prop: the parity of the
\* hash for a truthy userId, either one (Math.random) otherwise.
AssignedVariants(u) ==
  IF u.present /\ u.chars # <<>>
  THEN { IF SumCharCodes(u.chars) % 2 = 0 THEN "A" ELSE "B" }
  ELSE { "A", "B" }

\* ------------------------------------------------------------- validators

CongratsErrorMsg == "Please answer all questions to continue"

VisaSelectMsg == "Please select an option"

VisaTypeMsg == "Please specify the visa type"

UsageErrorMsg == "To help us understand, please pick an option for all questions"

ReasonErrorMsg == "To help us understand, please pick an option"

DetailsNumberMsg == "Please enter a valid number"

DetailsLengthMsg == "Please type 25 characters min"

\* Minimum length of reasonDetails for a reason other than too-expensive.
MinDetailsLen == 25

\* Mutant: the last question of congrats-form is not required.
validateCongratsFormThreeOnly(fd) ==
  IF \/ fd.usedMigrateMate = NULL
     \/ fd.rolesApplied = ""
     \/ fd.companiesEmailed = ""
  THEN [ ok |-> FALSE, fd |-> [ fd EXCEPT !.congratsError = CongratsErrorMsg ] ]
  ELSE [ ok |-> TRUE, fd |-> [ fd EXCEPT !.congratsError = "" ] ]

\* The result of validateCongratsForm and the formData it sets.
validateCongratsForm(fd) ==
  IF \/ fd.usedMigrateMate = NULL
     \/ fd.rolesApplied = ""
     \/ fd.companiesEmailed = ""
     \/ fd.companiesInterviewed = ""
  THEN [ ok |-> FALSE, fd |-> [ fd EXCEPT !.congratsError = CongratsErrorMsg ] ]
  ELSE [ ok |-> TRUE, fd |-> [ fd EXCEPT !.congratsError = "" ] ]

\* Mutant: the visa type is compared with '' without trimming.
validateVisaFormNoTrim(fd) ==
  IF fd.visaHelp = NULL
  THEN [ ok |-> FALSE, fd |-> [ fd EXCEPT !.visaError = VisaSelectMsg ] ]
  ELSE IF fd.visaType = <<>>
  THEN [ ok |-> FALSE, fd |-> [ fd EXCEPT !.visaError = VisaTypeMsg ] ]
  ELSE [ ok |-> TRUE, fd |-> [ fd EXCEPT !.visaError = "" ] ]

validateVisaForm(fd) ==
  IF fd.visaHelp = NULL
  THEN [ ok |-> FALSE, fd |-> [ fd EXCEPT !.visaError = VisaSelectMsg ] ]
  ELSE IF TrimIsEmpty(fd.visaType)
  THEN [ ok |-> FALSE, fd |-> [ fd EXCEPT !.visaError = VisaTypeMsg ] ]
  ELSE [ ok |-> TRUE, fd |-> [ fd EXCEPT !.visaError = "" ] ]

\* Mutant: the failing branch forgets to spread formData.
validateUsageFormNoSpread(fd) ==
  IF \/ fd.usageRolesApplied = ""
     \/ fd.usageCompaniesEmailed = ""
     \/ fd.usageCompaniesInterviewed = ""
  THEN [ ok |-> FALSE, fd |-> [ EmptyFormData EXCEPT !.usageError = UsageErrorMsg ] ]
  ELSE [ ok |-> TRUE, fd |-> [ fd EXCEPT !.usageError = "" ] ]

\* Mutant: the interview question of usage-questions is not required.
validateUsageFormTwoOnly(fd) ==
  IF \/ fd.usageRolesApplied = ""
     \/ fd.usageCompaniesEmailed = ""
  THEN [ ok |-> FALSE, fd |-> [ fd EXCEPT !.usageError = UsageErrorMsg ] ]
  ELSE [ ok |-> TRUE, fd |-> [ fd EXCEPT !.usageError = "" ] ]

validateUsageForm(fd) ==
  IF \/ fd.usageRolesApplied = ""
     \/ fd.usageCompaniesEmailed = ""
     \/ fd.usageCompaniesInterviewed = ""
  THEN [ ok |-> FALSE, fd |-> [ fd EXCEPT !.usageError = UsageErrorMsg ] ]
  ELSE [ ok |-> TRUE, fd |-> [ fd EXCEPT !.usageError = "" ] ]

\* Mutant: the length test is <= instead of <.
validateReasonsFormOffByOne(fd) ==
  IF fd.cancellationReason = ""
  THEN [ ok |-> FALSE, fd |-> [ fd EXCEPT !.reasonError = ReasonErrorMsg ] ]
  ELSE IF /\ fd.cancellationReason = "too-expensive"
          /\ (ParseFloatIsNaN(fd.reasonDetails) \/ TrimIsEmpty(fd.reasonDetails))
  THEN [ ok |-> FALSE, fd |-> [ fd EXCEPT !.detailsError = DetailsNumberMsg ] ]
  ELSE IF /\ fd.cancellationReason # "too-expensive"
          /\ Len(fd.reasonDetails) <= MinDetailsLen
  THEN [ ok |-> FALSE, fd |-> [ fd EXCEPT !.detailsError = DetailsLengthMsg ] ]
  ELSE [ ok |-> TRUE,
         fd |-> [ fd EXCEPT !.reasonError = "", !.detailsError = "" ] ]

validateReasonsForm(fd) ==
  IF fd.cancellationReason = ""
  THEN [ ok |-> FALSE, fd |-> [ fd EXCEPT !.reasonError = ReasonErrorMsg ] ]
  ELSE IF /\ fd.cancellationReason = "too-expensive"
          /\ (ParseFloatIsNaN(fd.reasonDetails) \/ TrimIsEmpty(fd.reasonDetails))
  THEN [ ok |-> FALSE, fd |-> [ fd EXCEPT !.detailsError = DetailsNumberMsg ] ]
  ELSE IF /\ fd.cancellationReason # "too-expensive"
          /\ Len(fd.reasonDetails) < MinDetailsLen
  THEN [ ok |-> FALSE, fd |-> [ fd EXCEPT !.detailsError = DetailsLengthMsg ] ]
  ELSE [ ok |-> TRUE,
         fd |-> [ fd EXCEPT !.reasonError = "", !.detailsError = "" ] ]

\* ------------------------------------------------------- history variable

\* The values of the userId prop that are explored: absent, empty, two
\* permutations of one another, one of odd hash, two of equal hash that are
\* no permutations.
UserIdInputs ==
  { NoUser, User(<<>>), User(<< "a", "b", "c" >>), User(<< "b", "c", "a" >>),
    User(<< "a", "b", "d" >>), User(<< "a", "c" >>), User(<< "b", "b" >>) }

NothingSeen == [ offer |-> "none", first |-> [ u \in UserIdInputs |-> "none" ] ]

\* What a step adds to seen: the variant shown when offer is first displayed
\* in the open session (forgotten when the wizard closes), and the variant
\* the effect assigns to a userId for the first time.
Observe ==
  seen' =
    [ offer |->
        IF ~isOpen' THEN "none"
        ELSE IF seen.offer = "none" /\ currentStep' = "offer" THEN downsellVariant'
        ELSE seen.offer,
      first |->
        IF effectDeps' # effectDeps /\ isOpen /\ seen.first[userId] = "none"
        THEN [ seen.first EXCEPT ![userId] = downsellVariant' ]
        ELSE seen.first ]

\* --------------------------------------------------------------- progress

progressMap ==
  [ s \in FlowStep |->
      [ current |-> CASE s \in { "initial", "congrats-form", "offer" } -> 1
                      [] s \in { "feedback-form", "visa-help", "usage-questions",
                                 "detailed-reasons" } -> 2
                      [] s \in { "all-done", "founder-message", "offer-accepted",
                                 "sorry-to-go" } -> 3,
        total |-> 3 ] ]

\* Mutant: the progress is the number of steps taken.
getProgressInfoCountsHistory == [ current |-> Len(stepHistory), total |-> 3 ]

\* progressMap[currentStep] || { current: 1, total: 3 }
getProgressInfo ==
  IF currentStep \in DOMAIN progressMap
  THEN progressMap[currentStep]
  ELSE [ current |-> 1, total |-> 3 ]

\* ---------------------------------------------------------------- pricing
\* Amounts are numbers of cents; getDiscountedPrice divides by 2, so an
\* amount is kept as the fraction n / d.

StandardPlan == 2500
PremiumPlan == 2900

Cents(c) == [ n |-> c, d |-> 1 ]

getDiscountedPrice(originalPrice) ==
  [ n |-> originalPrice.n, d |-> originalPrice.d * 2 ]

\* Number.prototype.toFixed(0) of x = n / d, x >= 0: the integer nearest to
\* x, the larger one when two are equally near.
ToFixed0(x) == (2 * x.n + x.d) \div (2 * x.d)

formatPrice(priceInCents) ==
  "$" \o ToString(ToFixed0([ n |-> priceInCents.n, d |-> priceInCents.d * 100 ]))

\* What renderOffer shows: the price in purple, and the price struck through
\* ("" when none is shown).
renderOffer ==
  LET originalPrice == Cents(userSubscription.monthlyPrice)
      discountedPrice == IF downsellVariant = "B"
                         THEN getDiscountedPrice(originalPrice)
                         ELSE originalPrice
      isDiscounted == downsellVariant = "B"
  IN  [ isDiscounted |-> isDiscounted,
        price |-> formatPrice(discountedPrice),
        struck |-> IF isDiscounted THEN formatPrice(originalPrice) ELSE "" ]

PropsKept == UNCHANGED userSubscription

\* ------------------------------------------------------------ the store
\* The row of the subscriptions table of the user and the rows of the
\* cancellations table.  The component imports only react and receives
\* isOpen, onClose, userSubscription and userId: no handler reads or writes
\* the store, and formData is not handed to onClose.

SubscriptionStatus == { "active", "pending_cancellation", "cancelled" }

NoStoreAccess == UNCHANGED << subscriptionStatus, cancellations >>

\* What every step of the component leaves alone or records.
Kept == Observe /\ NoStoreAccess /\ PropsKept

\* The dependencies [isOpen, userId] differ from those of the last run of the
\* effect: the effect runs before the next event is rendered.
EffectDue == effectDeps # [ isOpen |-> isOpen, userId |-> userId ]

\* The histories explored end at n entries.
HistoryBound(n) == Len(stepHistory') <= n

\* A click, an edit or a change of the props: it is rendered once the effect
\* of the render before it has run.
RestUpTo(n) == ~EffectDue /\ UNCHANGED effectDeps /\ HistoryBound(n) /\ Kept

Rest == RestUpTo(MaxHist)

\* The component after construction, not yet shown, for a userId prop of
\* users: the effect has run once, for the closed wizard.
InitProps(users, prices) ==
  /\ isOpen = FALSE
  /\ userId \in users
  /\ userSubscription \in [ monthlyPrice : prices ]
  /\ currentStep = "initial"
  /\ downsellVariant = "A"
  /\ stepHistory = << "initial" >>
  /\ formData = EmptyFormData
  /\ effectDeps = [ isOpen |-> isOpen, userId |-> userId ]
  /\ seen = NothingSeen
  /\ subscriptionStatus = "active"
  /\ cancellations = << >>

InitWith(users) == InitProps(users, { StandardPlan })

\* ------------------------------------------------------------- navigation

\* Mutant: the step is shown without being pushed on the history.
navigateToStepNoPush(step) ==
  /\ stepHistory' = stepHistory
  /\ currentStep' = step

navigateToStep(step) ==
  /\ stepHistory' = Append(stepHistory, step)
  /\ currentStep' = step

\* Mutant: going back also clears the error messages.
goBackClearsErrors ==
  /\ isOpen
  /\ Len(stepHistory) > 1
  /\ LET newHistory == SubSeq(stepHistory, 1, Len(stepHistory) - 1)
     IN  /\ stepHistory' = newHistory
         /\ currentStep' = newHistory[Len(newHistory)]
  /\ formData' = [ formData EXCEPT !.congratsError = "", !.usageError = "",
                                   !.reasonError = "", !.detailsError = "",
                                   !.visaError = "" ]
  /\ UNCHANGED << isOpen, userId, downsellVariant >>

\* Mutant: the history is popped without testing its length.
goBackNoGuard ==
  /\ isOpen
  /\ LET newHistory == SubSeq(stepHistory, 1, Len(stepHistory) - 1)
     IN  /\ stepHistory' = newHistory
         /\ currentStep' =
              IF newHistory = <<>> THEN "undefined" ELSE newHistory[Len(newHistory)]
  /\ UNCHANGED << isOpen, userId, downsellVariant, formData >>

\* Mutant: the previous step is shown but the history keeps its last entry.
goBackKeepsHistory ==
  /\ isOpen
  /\ IF Len(stepHistory) > 1
     THEN /\ currentStep' = stepHistory[Len(stepHistory) - 1]
          /\ UNCHANGED stepHistory
     ELSE UNCHANGED << stepHistory, currentStep >>
  /\ UNCHANGED << isOpen, userId, downsellVariant, formData >>

goBack ==
  /\ isOpen
  /\ IF Len(stepHistory) > 1
     THEN LET newHistory == SubSeq(stepHistory, 1, Len(stepHistory) - 1)
          IN  /\ stepHistory' = newHistory
              /\ currentStep' = newHistory[Len(newHistory)]
     ELSE UNCHANGED << stepHistory, currentStep >>
  /\ UNCHANGED << isOpen, userId, downsellVariant, formData >>

\* Mutant: the reset forgets the history.
resetToInitialKeepsHistory ==
  /\ currentStep' = "initial"
  /\ UNCHANGED stepHistory
  /\ formData' = EmptyFormData

resetToInitial ==
  /\ currentStep' = "initial"
  /\ stepHistory' = << "initial" >>
  /\ formData' = EmptyFormData

\* ------------------------------------------------------ session lifecycle

\* The parent sets isOpen: the wizard is rendered with the state it has; the
\* component stays mounted while it returns null.
Open ==
  /\ ~isOpen
  /\ isOpen' = TRUE
  /\ UNCHANGED << userId, currentStep, downsellVariant, stepHistory, formData >>

\* The parent passes another userId.
ChangeUserId(u) ==
  /\ u # userId
  /\ userId' = u
  /\ UNCHANGED << isOpen, currentStep, downsellVariant, stepHistory, formData >>

\* The effect on [isOpen, userId], run after a render that changed one of
\* them: if the wizard is open it assigns the variant.
useEffect ==
  /\ EffectDue
  /\ effectDeps' = [ isOpen |-> isOpen, userId |-> userId ]
  /\ IF isOpen
     THEN downsellVariant' \in AssignedVariants(userId)
     ELSE UNCHANGED downsellVariant
  /\ UNCHANGED << isOpen, userId, currentStep, stepHistory, formData >>

\* onClose(): the parent hides the wizard.
onClose == isOpen' = FALSE

\* The close button of the header.
CloseButton ==
  /\ isOpen
  /\ resetToInitial
  /\ onClose
  /\ UNCHANGED << userId, downsellVariant >>

\* The Finish button of all-done, founder-message and sorry-to-go, and the
\* "Land your dream role" button of offer-accepted.
FinishButton ==
  /\ isOpen
  /\ currentStep \in { "all-done", "founder-message", "offer-accepted", "sorry-to-go" }
  /\ onClose
  /\ UNCHANGED << userId, currentStep, downsellVariant, stepHistory, formData >>

\* --------------------------------------------------------- event handlers

\* Mutant: the answer is not stored.
handleInitialChoiceNoStore(foundJob) ==
  /\ isOpen /\ currentStep = "initial"
  /\ formData' = formData
  /\ IF foundJob = "true"
     THEN navigateToStep("congrats-form")
     ELSE navigateToStep("offer")
  /\ UNCHANGED << isOpen, userId, downsellVariant >>

handleInitialChoice(foundJob) ==
  /\ isOpen /\ currentStep = "initial"
  /\ formData' = [ formData EXCEPT !.foundJob = foundJob ]
  /\ IF foundJob = "true"
     THEN navigateToStep("congrats-form")
     ELSE navigateToStep("offer")
  /\ UNCHANGED << isOpen, userId, downsellVariant >>

\* Mutant: declining the offer starts the wizard over.
handleOfferResponseRestarts(accepted) ==
  /\ isOpen /\ currentStep = "offer"
  /\ IF accepted
     THEN navigateToStep("offer-accepted")
     ELSE navigateToStep("initial")
  /\ UNCHANGED << isOpen, userId, downsellVariant, formData >>

handleOfferResponse(accepted) ==
  /\ isOpen /\ currentStep = "offer"
  /\ IF accepted
     THEN navigateToStep("offer-accepted")
     ELSE navigateToStep("usage-questions")
  /\ UNCHANGED << isOpen, userId, downsellVariant, formData >>

\* Mutant: the discount button of usage-questions leads to offer-accepted.
handleUsageQuestionsResponseSkipsOffer(getDiscount) ==
  IF getDiscount
  THEN navigateToStep("offer-accepted")
  ELSE navigateToStep("detailed-reasons")

handleUsageQuestionsResponse(getDiscount) ==
  IF getDiscount THEN navigateToStep("offer") ELSE navigateToStep("detailed-reasons")

\* Mutant: completing the cancellation shows the offer again.
handleDetailedReasonsResponseAlwaysOffer(getDiscount) == navigateToStep("offer")

handleDetailedReasonsResponse(getDiscount) ==
  IF getDiscount THEN navigateToStep("offer") ELSE navigateToStep("sorry-to-go")

\* A click on an answer button or an edit of a text field of the step shown:
\* setFormData({ ...formData, <field>: value }).
SetField(step, field, value) ==
  /\ isOpen /\ currentStep = step
  /\ formData' = [ formData EXCEPT ![field] = value ]
  /\ UNCHANGED << isOpen, userId, currentStep, downsellVariant, stepHistory >>

\* congrats-form
SetUsedMigrateMate(v) == SetField("congrats-form", "usedMigrateMate", v)

SetRolesApplied(v) == SetField("congrats-form", "rolesApplied", v)

SetCompaniesEmailed(v) == SetField("congrats-form", "companiesEmailed", v)

SetCompaniesInterviewed(v) == SetField("congrats-form", "companiesInterviewed", v)

CongratsHandleContinue ==
  /\ isOpen /\ currentStep = "congrats-form"
  /\ LET r == validateCongratsForm(formData)
     IN  /\ formData' = r.fd
         /\ IF r.ok
            THEN navigateToStep("feedback-form")
            ELSE UNCHANGED << currentStep, stepHistory >>
  /\ UNCHANGED << isOpen, userId, downsellVariant >>

\* feedback-form
SetFeedback(v) == SetField("feedback-form", "feedback", v)

\* Mutant: Continue asks for some feedback.
FeedbackContinueRequiresText ==
  /\ isOpen /\ currentStep = "feedback-form"
  /\ IF formData.feedback = <<>>
     THEN /\ formData' = [ formData EXCEPT !.congratsError = CongratsErrorMsg ]
          /\ UNCHANGED << currentStep, stepHistory >>
     ELSE /\ navigateToStep("visa-help")
          /\ formData' = formData
  /\ UNCHANGED << isOpen, userId, downsellVariant >>

FeedbackContinue ==
  /\ isOpen /\ currentStep = "feedback-form"
  /\ navigateToStep("visa-help")
  /\ UNCHANGED << isOpen, userId, downsellVariant, formData >>

\* visa-help
SetVisaHelp(v) ==
  /\ isOpen /\ currentStep = "visa-help"
  /\ formData' = [ formData EXCEPT !.visaHelp = v, !.visaError = "" ]
  /\ UNCHANGED << isOpen, userId, currentStep, downsellVariant, stepHistory >>

\* The visa type input is rendered once visaHelp is answered.
SetVisaType(v) ==
  /\ isOpen /\ currentStep = "visa-help"
  /\ formData.visaHelp # NULL
  /\ formData' = [ formData EXCEPT !.visaType = v, !.visaError = "" ]
  /\ UNCHANGED << isOpen, userId, currentStep, downsellVariant, stepHistory >>

VisaHandleContinue ==
  /\ isOpen /\ currentStep = "visa-help"
  /\ LET r == validateVisaForm(formData)
     IN  /\ formData' = r.fd
         /\ IF r.ok
            THEN IF formData.visaHelp = "true"
                 THEN navigateToStep("all-done")
                 ELSE navigateToStep("founder-message")
            ELSE UNCHANGED << currentStep, stepHistory >>
  /\ UNCHANGED << isOpen, userId, downsellVariant >>

\* usage-questions
SetUsageRolesApplied(v) == SetField("usage-questions", "usageRolesApplied", v)

SetUsageCompaniesEmailed(v) == SetField("usage-questions", "usageCompaniesEmailed", v)

SetUsageCompaniesInterviewed(v) ==
  SetField("usage-questions", "usageCompaniesInterviewed", v)

UsageHandle(getDiscount) ==
  /\ isOpen /\ currentStep = "usage-questions"
  /\ LET r == validateUsageForm(formData)
     IN  /\ formData' = r.fd
         /\ IF r.ok
            THEN handleUsageQuestionsResponse(getDiscount)
            ELSE UNCHANGED << currentStep, stepHistory >>
  /\ UNCHANGED << isOpen, userId, downsellVariant >>

UsageHandleGetDiscount == UsageHandle(TRUE)

UsageHandleContinue == UsageHandle(FALSE)

\* detailed-reasons
\* Mutant: the details typed under the previous reason are kept.
SelectReasonKeepsDetails(v) ==
  /\ isOpen /\ currentStep = "detailed-reasons"
  /\ formData' = [ formData EXCEPT !.cancellationReason = v,
                                   !.reasonError = "",
                                   !.detailsError = "" ]
  /\ UNCHANGED << isOpen, userId, currentStep, downsellVariant, stepHistory >>

SelectReason(v) ==
  /\ isOpen /\ currentStep = "detailed-reasons"
  /\ formData' = [ formData EXCEPT !.cancellationReason = v,
                                   !.reasonDetails = <<>>,
                                   !.reasonError = "",
                                   !.detailsError = "" ]
  /\ UNCHANGED << isOpen, userId, currentStep, downsellVariant, stepHistory >>

\* The details textarea is rendered once a reason is selected.
SetReasonDetails(v) ==
  /\ isOpen /\ currentStep = "detailed-reasons"
  /\ formData.cancellationReason # ""
  /\ formData' = [ formData EXCEPT !.reasonDetails = v, !.detailsError = "" ]
  /\ UNCHANGED << isOpen, userId, currentStep, downsellVariant, stepHistory >>

ReasonsHandle(getDiscount) ==
  /\ isOpen /\ currentStep = "detailed-reasons"
  /\ LET r == validateReasonsForm(formData)
     IN  /\ formData' = r.fd
         /\ IF r.ok
            THEN handleDetailedReasonsResponse(getDiscount)
            ELSE UNCHANGED << currentStep, stepHistory >>
  /\ UNCHANGED << isOpen, userId, downsellVariant >>

ReasonsHandleGetDiscount == ReasonsHandle(TRUE)

ReasonsHandleCompleteCancel == ReasonsHandle(FALSE)

\* ----------------------------------------------------------------- inputs

Bool == { "true", "false" }

UserIds == { NoUser, User(<< "a", "b", "c" >>), User(<< "a", "b", "d" >>) }

\* The whole wizard: one value per kind of answer.
VisaTypes == { << " " >>, << "H", "1" >> }

ShortDetails == { << "5", "0" >>, Rep("x", MinDetailsLen) }

\* The job-found path: blank and non-blank visa types.
FeedbackInputs == { <<>>, << "o", "k" >> }

VisaTypeInputs ==
  { <<>>, << " " >>, << " ", "\t" >>, << NBSP >>, << "\r", "\f" >>, << "H", "1" >>,
    << " ", "E", "3", " " >> }

\* The still-looking path: numbers, non-numbers and texts around the minimum
\* length.
DetailsInputs ==
  { <<>>, << " " >>, << "a", "b", "c" >>, << "5", "0" >>, << "5", "a" >>,
    << " ", "1", "2", ".", "5" >>, << ".", "5" >>, << "-", "x" >>,
    << NBSP, "5" >>, << "\r", "\n" >>,
    Rep("x", MinDetailsLen - 1), Rep("x", MinDetailsLen), Rep(" ", MinDetailsLen),
    Rep("7", MinDetailsLen + 1) }

\* ---------------------------------------------------------- specification

JobPathUpTo(n, bools, roles, interviews, texts, visas) ==
  \/ \E v \in bools : SetUsedMigrateMate(v) /\ RestUpTo(n)
  \/ \E v \in roles : SetRolesApplied(v) /\ RestUpTo(n)
  \/ \E v \in roles : SetCompaniesEmailed(v) /\ RestUpTo(n)
  \/ \E v \in interviews : SetCompaniesInterviewed(v) /\ RestUpTo(n)
  \/ CongratsHandleContinue /\ RestUpTo(n)
  \/ \E v \in texts : SetFeedback(v) /\ RestUpTo(n)
  \/ FeedbackContinue /\ RestUpTo(n)
  \/ \E v \in Bool : SetVisaHelp(v) /\ RestUpTo(n)
  \/ \E v \in visas : SetVisaType(v) /\ RestUpTo(n)
  \/ VisaHandleContinue /\ RestUpTo(n)

JobPath(bools, roles, interviews, texts, visas) ==
  JobPathUpTo(MaxHist, bools, roles, interviews, texts, visas)

LookingPathUpTo(n, roles, interviews, reasons, details) ==
  \/ \E a \in BOOLEAN : handleOfferResponse(a) /\ RestUpTo(n)
  \/ \E v \in roles : SetUsageRolesApplied(v) /\ RestUpTo(n)
  \/ \E v \in roles : SetUsageCompaniesEmailed(v) /\ RestUpTo(n)
  \/ \E v \in interviews : SetUsageCompaniesInterviewed(v) /\ RestUpTo(n)
  \/ UsageHandleGetDiscount /\ RestUpTo(n)
  \/ UsageHandleContinue /\ RestUpTo(n)
  \/ \E v \in reasons : SelectReason(v) /\ RestUpTo(n)
  \/ \E v \in details : SetReasonDetails(v) /\ RestUpTo(n)
  \/ ReasonsHandleGetDiscount /\ RestUpTo(n)
  \/ ReasonsHandleCompleteCancel /\ RestUpTo(n)

LookingPath(roles, interviews, reasons, details) ==
  LookingPathUpTo(MaxHist, roles, interviews, reasons, details)

LifecycleUpTo(n) ==
  \/ Open /\ RestUpTo(n)
  \/ useEffect /\ Kept
  \/ CloseButton /\ RestUpTo(n)
  \/ FinishButton /\ RestUpTo(n)
  \/ goBack /\ RestUpTo(n)

Lifecycle == LifecycleUpTo(MaxHist)

\* The whole wizard.
Init == InitWith(UserIds)

Next ==
  \/ Lifecycle
  \/ \E f \in Bool : handleInitialChoice(f) /\ Rest
  \/ JobPath({ "true" }, { "1-5" }, { "1-2" }, { << "x" >> }, VisaTypes)
  \/ LookingPath({ "0" }, { "0" }, { "too-expensive", "other" }, ShortDetails)

Spec == Init /\ [][Next]_vars

\* The job-found path with every kind of answer to its forms.
InitJob == InitWith({ User(<< "a", "b", "c" >>) })

NextJob ==
  \/ Lifecycle
  \/ handleInitialChoice("true") /\ Rest
  \/ JobPath(Bool, RolesOptions, InterviewOptions, FeedbackInputs, VisaTypeInputs)

SpecJob == InitJob /\ [][NextJob]_vars

\* The still-looking path with every kind of answer to its forms.
InitLooking == InitWith({ User(<< "a", "b", "d" >>) })

NextLooking ==
  \/ Lifecycle
  \/ handleInitialChoice("false") /\ Rest
  \/ LookingPath(RolesOptions, InterviewOptions, reasonOptions, DetailsInputs)

SpecLooking == InitLooking /\ [][NextLooking]_vars

\* The assignment of the variant: every userId, opening, closing and a
\* change of the userId prop, with the first steps of the wizard.
InitAssign == InitWith(UserIdInputs)

NextAssign ==
  \/ Lifecycle
  \/ \E u \in UserIdInputs : ChangeUserId(u) /\ Rest
  \/ \E f \in Bool : handleInitialChoice(f) /\ Rest
  \/ \E a \in BOOLEAN : handleOfferResponse(a) /\ Rest

SpecAssign == InitAssign /\ [][NextAssign]_vars

\* The still-looking path while the userId prop may change.
InitVariant == InitWith(UserIds)

NextVariant ==
  \/ Lifecycle
  \/ \E u \in UserIds : ChangeUserId(u) /\ Rest
  \/ handleInitialChoice("false") /\ Rest
  \/ LookingPath({ "0" }, { "0" }, { "other" }, { Rep("x", MinDetailsLen) })

SpecVariant == InitVariant /\ [][NextVariant]_vars

\* The offer of both plans, to both variants.
PriceInputs == { StandardPlan, PremiumPlan }

InitOffer == InitProps(UserIds, PriceInputs)

NextOffer ==
  \/ Lifecycle
  \/ handleInitialChoice("false") /\ Rest
  \/ LookingPath({ "0" }, { "0" }, { "other" }, { Rep("x", MinDetailsLen) })

SpecOffer == InitOffer /\ [][NextOffer]_vars

\* The still-looking scenario of userId "abc".
ScenarioDetails ==
  << "I", " ", "c", "h", "a", "n", "g", "e", "d", " ", "m", "y", " ", "m",
    "i", "n", "d", " ", "a", "b", "o", "u", "t", " ", "r", "e", "l", "o",
    "c", "a", "t", "i", "n", "g", " ", "e", "n", "t", "i", "r", "e", "l",
    "y" >>

InitScenario == InitWith({ User(<< "a", "b", "c" >>) })

NextScenario ==
  \/ Lifecycle
  \/ handleInitialChoice("false") /\ Rest
  \/ LookingPath({ "1-5" }, { "1-2" }, { "decided-not-to-move" },
                 { ScenarioDetails })

SpecScenario == InitScenario /\ [][NextScenario]_vars

\* The whole wizard with one value per answer and histories long enough for
\* both still-looking loops to be run more than once.
InitLoop == InitWith({ User(<< "a", "b", "c" >>) })

NextLoop ==
  \/ LifecycleUpTo(MaxLoop)
  \/ \E f \in Bool : handleInitialChoice(f) /\ RestUpTo(MaxLoop)
  \/ JobPathUpTo(MaxLoop, { "true" }, { "1-5" }, { "1-2" }, { << "x" >> },
                 { << "H", "1" >> })
  \/ LookingPathUpTo(MaxLoop, { "0" }, { "0" }, { "other" },
                     { Rep("x", MinDetailsLen) })

SpecLoop == InitLoop /\ [][NextLoop]_vars

\* ------------------------------------------------------------------ claims

TerminalSteps == { "all-done", "founder-message", "offer-accepted", "sorry-to-go" }

\* The transition table of the wizard: from -> to, with the answer that
\* selects the edge where the table names one.
TableEdge(from, to, fd) ==
  \/ from = "initial" /\ to = "congrats-form" /\ fd.foundJob = "true"
  \/ from = "initial" /\ to = "offer" /\ fd.foundJob = "false"
  \/ from = "congrats-form" /\ to = "feedback-form"
  \/ from = "feedback-form" /\ to = "visa-help"
  \/ from = "visa-help" /\ to = "all-done" /\ fd.visaHelp = "true"
  \/ from = "visa-help" /\ to = "founder-message" /\ fd.visaHelp = "false"
  \/ from = "offer" /\ to = "offer-accepted"
  \/ from = "offer" /\ to = "usage-questions"
  \/ from = "usage-questions" /\ to = "offer"
  \/ from = "usage-questions" /\ to = "detailed-reasons"
  \/ from = "detailed-reasons" /\ to = "offer"
  \/ from = "detailed-reasons" /\ to = "sorry-to-go"

\* C1: every forward step (one that extends the history) goes along an edge
\* of the transition table, from the step shown to the new step.
C1_ForwardStepsFollowTable ==
  [][ Len(stepHistory') > Len(stepHistory)
        => /\ stepHistory' = Append(stepHistory, currentStep')
           /\ TableEdge(currentStep, currentStep', formData') ]_vars

\* A history that took the discount edge of detailed-reasons.
C1_Witness ==
  stepHistory =
    << "initial", "offer", "usage-questions", "detailed-reasons", "offer" >>

AnswerFields ==
  { "foundJob", "usedMigrateMate", "rolesApplied", "companiesEmailed",
    "companiesInterviewed", "feedback", "visaHelp", "visaType",
    "usageRolesApplied", "usageCompaniesEmailed", "usageCompaniesInterviewed",
    "cancellationReason", "reasonDetails" }

\* This step changed formData in the error slot e only, to a message.
OnlyErrorSet(e) ==
  /\ formData'[e] # ""
  /\ formData' = [ formData EXCEPT ![e] = formData'[e] ]

StaysOnStep ==
  /\ currentStep' = currentStep
  /\ stepHistory' = stepHistory
  /\ \A f \in AnswerFields : formData'[f] = formData[f]

\* C2: a forward action that its step's validator rejects leaves the step,
\* the history and every answer as they were and sets a non-empty error
\* message of that step, and nothing else.
C2_RejectionOnlySetsError ==
  [][ /\ (CongratsHandleContinue /\ ~validateCongratsForm(formData).ok)
          => (StaysOnStep /\ OnlyErrorSet("congratsError"))
      /\ (VisaHandleContinue /\ ~validateVisaForm(formData).ok)
          => (StaysOnStep /\ OnlyErrorSet("visaError"))
      /\ ((UsageHandleGetDiscount \/ UsageHandleContinue)
            /\ ~validateUsageForm(formData).ok)
          => (StaysOnStep /\ OnlyErrorSet("usageError"))
      /\ ((ReasonsHandleGetDiscount \/ ReasonsHandleCompleteCancel)
            /\ ~validateReasonsForm(formData).ok)
          => (StaysOnStep
                /\ (OnlyErrorSet("reasonError") \/ OnlyErrorSet("detailsError")))
    ]_vars

\* Rejections of two validators in one session: the user is on
\* usage-questions with its error shown, the error of congrats-form still set.
C2_Witness ==
  /\ currentStep = "usage-questions"
  /\ formData.usageError # ""
  /\ formData.congratsError # ""

JobFoundPopulated(fd) ==
  \/ fd.usedMigrateMate # NULL
  \/ fd.rolesApplied # ""
  \/ fd.companiesEmailed # ""
  \/ fd.companiesInterviewed # ""
  \/ fd.feedback # <<>>
  \/ fd.visaHelp # NULL
  \/ fd.visaType # <<>>

StillLookingPopulated(fd) ==
  \/ fd.usageRolesApplied # ""
  \/ fd.usageCompaniesEmailed # ""
  \/ fd.usageCompaniesInterviewed # ""
  \/ fd.cancellationReason # ""
  \/ fd.reasonDetails # <<>>

\* C3: at most one of the job-found branch and the still-looking branch of
\* formData is populated.
C3_OneBranchPopulated ==
  ~ (JobFoundPopulated(formData) /\ StillLookingPopulated(formData))

\* C4: while the wizard stays open, a terminal step stays the current step.
C4_TerminalStepStays ==
  [][ (isOpen /\ isOpen' /\ currentStep \in TerminalSteps)
        => currentStep' = currentStep ]_vars

CleanSession ==
  /\ currentStep = "initial"
  /\ stepHistory = << "initial" >>
  /\ formData = EmptyFormData

\* C5: a wizard that is opened shows the initial step with a history of
\* that step alone and an empty formData.
C5_OpenedSessionIsClean ==
  [][ (~isOpen /\ isOpen') => CleanSession' ]_vars

\* A text with a character that is not white space.
NonBlank(s) == \E i \in 1..Len(s) : s[i] \notin WhiteSpace

AllDigits(s) == \A i \in 1..Len(s) : s[i] \in Digits

\* The text without white space at its two ends.
RECURSIVE StripEnds(_)
StripEnds(s) ==
  IF s = <<>> THEN s
  ELSE IF Head(s) \in WhiteSpace THEN StripEnds(Tail(s))
  ELSE IF s[Len(s)] \in WhiteSpace THEN StripEnds(SubSeq(s, 1, Len(s) - 1))
  ELSE s

\* The whole text is a decimal number: an optional sign, then digits with
\* an optional fraction, or a fraction alone.
IsValidNumber(s) ==
  LET t == StripEnds(s)
      b == IF t # <<>> /\ Head(t) \in { "+", "-" } THEN Tail(t) ELSE t
  IN  \E k \in 0..Len(b) :
        /\ AllDigits(SubSeq(b, 1, k))
        /\ \/ k = Len(b) /\ k > 0
           \/ /\ k < Len(b) /\ b[k + 1] = "."
              /\ AllDigits(SubSeq(b, k + 2, Len(b)))
              /\ Len(b) > 1

ReasonsForward == ReasonsHandleGetDiscount \/ ReasonsHandleCompleteCancel

\* C6: with reason too-expensive a forward action of detailed-reasons is
\* accepted exactly when reasonDetails is a valid number, and is rejected
\* with a details error otherwise; with no reason it is rejected with a
\* reason error.
C6_TooExpensiveAcceptsOnlyNumbers ==
  [][ /\ (ReasonsForward /\ formData.cancellationReason = "too-expensive")
          => IF IsValidNumber(formData.reasonDetails)
             THEN currentStep' \in { "offer", "sorry-to-go" }
             ELSE currentStep' = currentStep /\ formData'.detailsError # ""
      /\ (ReasonsForward /\ formData.cancellationReason = "")
          => (currentStep' = currentStep /\ formData'.reasonError # "")
    ]_vars

\* C7: with a reason other than too-expensive a forward action of
\* detailed-reasons is accepted exactly when reasonDetails has 25 characters
\* or more; it then clears both errors and shows offer (discount) or
\* sorry-to-go (complete), and otherwise stays with a details error.
C7_OtherReasonsNeed25Characters ==
  [][ \A g \in BOOLEAN :
        ( /\ ReasonsHandle(g)
          /\ formData.cancellationReason \in reasonOptions \ { "too-expensive" } )
        => IF Len(formData.reasonDetails) >= 25
           THEN /\ currentStep' = (IF g THEN "offer" ELSE "sorry-to-go")
                /\ formData'.reasonError = ""
                /\ formData'.detailsError = ""
           ELSE /\ currentStep' = "detailed-reasons"
                /\ formData'.detailsError # "" ]_vars

\* The cancellation was completed with a text of exactly 25 characters.
C7_Witness ==
  /\ currentStep = "sorry-to-go"
  /\ formData.cancellationReason = "other"
  /\ Len(formData.reasonDetails) = 25

AllFourCongratsAnswers(fd) ==
  /\ fd.usedMigrateMate \in { "true", "false" }
  /\ fd.rolesApplied # ""
  /\ fd.companiesEmailed # ""
  /\ fd.companiesInterviewed # ""

\* C8: Continue of congrats-form is accepted exactly when the four questions
\* are answered; it then clears congratsError and shows feedback-form, and
\* otherwise stays with a non-empty congratsError.
C8_CongratsNeedsFourAnswers ==
  [][ CongratsHandleContinue
        => IF AllFourCongratsAnswers(formData)
           THEN currentStep' = "feedback-form" /\ formData'.congratsError = ""
           ELSE currentStep' = "congrats-form" /\ formData'.congratsError # ""
    ]_vars

\* feedback-form was reached with "0" among the answers.
C8_Witness ==
  /\ currentStep = "feedback-form"
  /\ formData.usedMigrateMate = "false"
  /\ formData.companiesInterviewed = "0"
  /\ formData.congratsError = ""

\* C9: the forward action of visa-help is accepted exactly when visaHelp is
\* answered and visaType is not blank; it then shows all-done for visaHelp
\* true and founder-message for visaHelp false.
C9_VisaValidationAndRouting ==
  [][ VisaHandleContinue
        => IF formData.visaHelp # NULL /\ NonBlank(formData.visaType)
           THEN currentStep' =
                  (IF formData.visaHelp = "true" THEN "all-done" ELSE "founder-message")
           ELSE currentStep' = "visa-help" /\ formData'.visaError # ""
    ]_vars

\* founder-message was reached with a visa type that has white space around it.
C9_Witness ==
  /\ currentStep = "founder-message"
  /\ formData.visaHelp = "false"
  /\ formData.visaType = << " ", "E", "3", " " >>

AllThreeUsageAnswers(fd) ==
  /\ fd.usageRolesApplied # ""
  /\ fd.usageCompaniesEmailed # ""
  /\ fd.usageCompaniesInterviewed # ""

\* C10: the two forward actions of usage-questions are accepted exactly when
\* the three questions are answered; they then clear usageError and show
\* offer (discount) or detailed-reasons (continue), and otherwise stay with
\* a non-empty usageError.
C10_UsageNeedsThreeAnswers ==
  [][ \A g \in BOOLEAN :
        UsageHandle(g)
        => IF AllThreeUsageAnswers(formData)
           THEN /\ currentStep' = (IF g THEN "offer" ELSE "detailed-reasons")
                /\ formData'.usageError = ""
           ELSE /\ currentStep' = "usage-questions"
                /\ formData'.usageError # "" ]_vars

\* offer was entered again from usage-questions, all three questions answered.
C10_Witness ==
  /\ stepHistory = << "initial", "offer", "usage-questions", "offer" >>
  /\ AllThreeUsageAnswers(formData)
  /\ formData.usageError = ""

\* The inputs each error message is about, and the step that shows them.
CheckedInputs ==
  [ congratsError |-> { "usedMigrateMate", "rolesApplied", "companiesEmailed",
                        "companiesInterviewed" },
    usageError |-> { "usageRolesApplied", "usageCompaniesEmailed",
                     "usageCompaniesInterviewed" },
    reasonError |-> { "cancellationReason" },
    detailsError |-> { "cancellationReason", "reasonDetails" },
    visaError |-> { "visaHelp", "visaType" } ]

\* C11: once the user changes an input that a validator checks, the error
\* message of that validator is empty.
C11_EditClearsError ==
  [][ \A e \in DOMAIN CheckedInputs :
        (isOpen /\ \E f \in CheckedInputs[e] : formData'[f] # formData[f])
        => formData'[e] = "" ]_vars

\* C12: going back with more than one entry in the history removes the last
\* entry, shows the entry before it and leaves formData, answers and error
\* messages, as it was.
C12_BackPopsOneEntry ==
  [][ (goBack /\ Len(stepHistory) > 1)
        => /\ Len(stepHistory') = Len(stepHistory) - 1
           /\ \A i \in 1..Len(stepHistory') : stepHistory'[i] = stepHistory[i]
           /\ currentStep' = stepHistory[Len(stepHistory) - 1]
           /\ formData' = formData ]_vars

\* The user came back from visa-help to feedback-form: the answers and the
\* error message of visa-help are still there.
C12_Witness ==
  /\ isOpen
  /\ stepHistory = << "initial", "congrats-form", "feedback-form" >>
  /\ formData.visaHelp = "true"
  /\ formData.visaError # ""

\* C13: going back with one entry in the history changes nothing.
C13_BackOnInitialIsNoOp ==
  [][ (goBack /\ Len(stepHistory) = 1)
        => UNCHANGED << currentStep, stepHistory, formData, downsellVariant,
                        isOpen, userId >> ]_vars

\* The user came back to the initial step, where Back has nothing to pop.
C13_Witness ==
  /\ isOpen
  /\ stepHistory = << "initial" >>
  /\ currentStep = "initial"
  /\ formData.foundJob = "false"

\* The sum of the character codes of s, added up from the first character.
CodeSum(s) ==
  LET sum[i \in 0..Len(s)] == IF i = 0 THEN 0 ELSE sum[i - 1] + CharCode[s[i]]
  IN  sum[Len(s)]

Identified(u) == u.present /\ Len(u.chars) > 0

\* C14: once the effect has run for an open wizard with a non-empty userId,
\* the variant is A if the sum of the character codes is even and B if it is
\* odd.
C14_VariantIsParityOfCodeSum ==
  (isOpen /\ ~EffectDue /\ Identified(userId))
    => downsellVariant = (IF CodeSum(userId.chars) % 2 = 0 THEN "A" ELSE "B")

\* The wizard is open for "abd", of sum 295, and the effect has run.
C14_Witness ==
  /\ isOpen
  /\ ~EffectDue
  /\ userId = User(<< "a", "b", "d" >>)
  /\ downsellVariant = "B"

\* C15: two non-empty userIds of equal character-code sum were assigned the
\* same variant in their first sessions.
C15_EqualSumsSameVariant ==
  \A u1, u2 \in UserIdInputs :
    ( /\ Identified(u1) /\ Identified(u2)
      /\ CodeSum(u1.chars) = CodeSum(u2.chars)
      /\ seen.first[u1] # "none" /\ seen.first[u2] # "none" )
    => seen.first[u1] = seen.first[u2]

\* Sessions were opened for two permutations and for two userIds of equal
\* sum that are no permutations.
C15_Witness ==
  /\ seen.first[User(<< "a", "b", "c" >>)] # "none"
  /\ seen.first[User(<< "b", "c", "a" >>)] # "none"
  /\ seen.first[User(<< "a", "c" >>)] # "none"
  /\ seen.first[User(<< "b", "b" >>)] # "none"

\* C16: once the effect has run for the opening of the wizard, no step
\* changes the variant while the wizard stays open.
C16_VariantHeldWhileOpen ==
  [][ (isOpen /\ effectDeps.isOpen /\ isOpen')
        => downsellVariant' = downsellVariant ]_vars

\* C17: whenever offer is entered in a session that has shown offer before,
\* the variant is the one of that first visit.
C17_OfferKeepsFirstVariant ==
  [][ ( /\ isOpen /\ isOpen'
        /\ stepHistory' # stepHistory /\ currentStep' = "offer"
        /\ seen.offer # "none" )
      => downsellVariant' = seen.offer ]_vars

\* The effect runs for the opening of the wizard.
OpeningEffect == isOpen /\ ~effectDeps.isOpen /\ effectDeps' # effectDeps

\* C18 as stated: a wizard opened again for a userId (also an absent one) is
\* assigned the variant first assigned to it.
C18_SameVariantEverySession ==
  [][ (OpeningEffect /\ seen.first[userId] # "none")
        => downsellVariant' = seen.first[userId] ]_vars

\* C18 amended: a wizard opened again for a non-empty userId is assigned the
\* variant first assigned to that userId.
C18_SameVariantForIdentifiedUser ==
  [][ (OpeningEffect /\ Identified(userId) /\ seen.first[userId] # "none")
        => downsellVariant' = seen.first[userId] ]_vars

\* A later session of "abd": offer-accepted is shown although offer was not
\* visited since the wizard was opened, so the wizard was closed on it and
\* opened again.
C18_Witness ==
  /\ isOpen
  /\ ~EffectDue
  /\ userId = User(<< "a", "b", "d" >>)
  /\ seen.first[userId] = "B"
  /\ downsellVariant = "B"
  /\ currentStep = "offer-accepted"
  /\ seen.offer = "none"

\* C19: the variant is A or B in every state.
C19_VariantIsAOrB == downsellVariant \in { "A", "B" }

\* The wizard is open without a userId and B was drawn.
C19_Witness ==
  /\ isOpen
  /\ ~EffectDue
  /\ userId = NoUser
  /\ downsellVariant = "B"

StillLookingPath ==
  << "initial", "offer", "usage-questions", "detailed-reasons", "sorry-to-go" >>

\* C20: for userId "abc", along initial, offer, usage-questions,
\* detailed-reasons: still-looking shows offer, declining shows
\* usage-questions, Continue with the three answers shows detailed-reasons,
\* and Complete cancellation with reason decided-not-to-move and the
\* scenario's details shows the terminal step sorry-to-go with the history
\* of the five steps.
C20_StillLookingScenario ==
  [][ /\ (handleInitialChoice("false") /\ stepHistory = SubSeq(StillLookingPath, 1, 1))
          => (currentStep' = "offer" /\ stepHistory' = SubSeq(StillLookingPath, 1, 2))
      /\ (handleOfferResponse(FALSE) /\ stepHistory = SubSeq(StillLookingPath, 1, 2))
          => (currentStep' = "usage-questions"
                /\ stepHistory' = SubSeq(StillLookingPath, 1, 3))
      /\ ( /\ UsageHandleContinue /\ stepHistory = SubSeq(StillLookingPath, 1, 3)
           /\ AllThreeUsageAnswers(formData) )
          => (currentStep' = "detailed-reasons"
                /\ stepHistory' = SubSeq(StillLookingPath, 1, 4))
      /\ ( /\ ReasonsHandleCompleteCancel
           /\ stepHistory = SubSeq(StillLookingPath, 1, 4)
           /\ formData.cancellationReason = "decided-not-to-move"
           /\ formData.reasonDetails = ScenarioDetails )
          => /\ currentStep' = "sorry-to-go"
             /\ currentStep' \in TerminalSteps
             /\ stepHistory' = StillLookingPath
    ]_vars

\* The scenario was played to its end.
C20_Witness ==
  /\ userId = User(<< "a", "b", "c" >>)
  /\ isOpen
  /\ stepHistory = StillLookingPath
  /\ formData.foundJob = "false"
  /\ formData.cancellationReason = "decided-not-to-move"
  /\ formData.reasonDetails = ScenarioDetails

CancelOutcomes == { "all-done", "founder-message", "sorry-to-go" }

\* C21: the step that reaches sorry-to-go adds exactly one row to
\* cancellations, with the variant of the session, the reason and the details
\* of formData, no job-found column and accepted_downsell false.
C21_SorryToGoInsertsOneRecord ==
  [][ (currentStep # "sorry-to-go" /\ currentStep' = "sorry-to-go")
        => /\ Len(cancellations') = Len(cancellations) + 1
           /\ LET r == cancellations'[Len(cancellations')]
              IN  /\ r.downsell_variant = downsellVariant'
                  /\ r.cancellation_reason = formData'.cancellationReason
                  /\ r.reason_details = formData'.reasonDetails
                  /\ r.accepted_downsell = FALSE
                  /\ DOMAIN r \cap { "used_migratemate", "roles_applied",
                                     "companies_emailed", "companies_interviewed",
                                     "feedback", "visa_help", "visa_type" } = {}
    ]_vars

\* C22: the step that reaches all-done, founder-message or sorry-to-go with
\* an active subscription leaves it pending_cancellation; a row is added to
\* cancellations only once the subscription is pending_cancellation; the
\* status stays one of active, pending_cancellation, cancelled.
C22_CancelOutcomeMarksSubscription ==
  [][ /\ ( /\ currentStep \notin CancelOutcomes
           /\ currentStep' \in CancelOutcomes
           /\ subscriptionStatus = "active" )
          => subscriptionStatus' = "pending_cancellation"
      /\ Len(cancellations') > Len(cancellations)
          => subscriptionStatus' = "pending_cancellation"
      /\ subscriptionStatus' \in SubscriptionStatus
    ]_vars

\* The amount of cents written as dollars, with the cents when there are any.
PriceText(cents) ==
  LET c == cents % 100
  IN  "$" \o ToString(cents \div 100)
          \o (IF c = 0 THEN ""
              ELSE "." \o (IF c < 10 THEN "0" ELSE "") \o ToString(c))

\* C23: on offer, variant A is shown the monthly price and variant B half of
\* it: $12.50 for the plan of 2500 cents, $14.50 for the plan of 2900 cents.
C23_OfferPriceByVariant ==
  (isOpen /\ currentStep = "offer")
    => /\ downsellVariant = "A"
          => renderOffer.price = PriceText(userSubscription.monthlyPrice)
       /\ downsellVariant = "B"
          => renderOffer.price = PriceText(userSubscription.monthlyPrice \div 2)
       /\ (downsellVariant = "B" /\ userSubscription.monthlyPrice = StandardPlan)
          => renderOffer.price = "$12.50"
       /\ (downsellVariant = "B" /\ userSubscription.monthlyPrice = PremiumPlan)
          => renderOffer.price = "$14.50"

\* C24: a step that shows another step by a forward action appends the new
\* current step to the history; an effective goBack removes the last entry;
\* the close button resets the history; every other step leaves the history
\* and the current step as they were.
C24_HistoryDiscipline ==
  [][ \/ UNCHANGED << stepHistory, currentStep >>
      \/ /\ TableEdge(currentStep, currentStep', formData')
         /\ stepHistory' = Append(stepHistory, currentStep')
      \/ /\ goBack /\ Len(stepHistory) > 1
         /\ stepHistory' = SubSeq(stepHistory, 1, Len(stepHistory) - 1)
      \/ /\ CloseButton
         /\ stepHistory' = << "initial" >>
    ]_vars

\* After still-looking, No thanks, Back, Back and job-found: the history
\* holds the steps of the present path only.
C24_Witness ==
  /\ isOpen
  /\ stepHistory = << "initial", "congrats-form" >>
  /\ formData.usageRolesApplied # ""

\* C25: Continue of feedback-form shows visa-help whatever feedback holds and
\* leaves formData, error messages included, as it was.
C25_FeedbackContinueUnvalidated ==
  [][ FeedbackContinue
        => /\ currentStep' = "visa-help"
           /\ formData' = formData ]_vars

\* visa-help was reached with no feedback and no error message.
C25_Witness ==
  /\ isOpen
  /\ stepHistory = << "initial", "congrats-form", "feedback-form", "visa-help" >>
  /\ formData.feedback = <<>>
  /\ formData.congratsError = ""
  /\ formData.visaHelp = NULL

\* C26: the history is not empty, starts with initial and ends with the
\* current step; it has one entry exactly when the current step is initial.
C26_HistoryEndsAtCurrentStep ==
  /\ stepHistory # <<>>
  /\ stepHistory[1] = "initial"
  /\ stepHistory[Len(stepHistory)] = currentStep
  /\ Len(stepHistory) = 1 <=> currentStep = "initial"

\* offer was entered a second time, from usage-questions.
C26_Witness ==
  /\ isOpen
  /\ currentStep = "offer"
  /\ stepHistory = << "initial", "offer", "usage-questions", "offer" >>

\* C27: every two consecutive entries of the history are an edge of the
\* transition table.
C27_HistoryIsForwardPath ==
  \A i \in 1..(Len(stepHistory) - 1) :
    \E fd \in { [ formData EXCEPT !.foundJob = f, !.visaHelp = v ] :
                   f \in Bool, v \in Bool } :
      TableEdge(stepHistory[i], stepHistory[i + 1], fd)

\* After job-found, an answer, Back, still-looking and No thanks.
C27_Witness ==
  /\ isOpen
  /\ stepHistory = << "initial", "offer", "usage-questions" >>
  /\ formData.usedMigrateMate # NULL

JobFoundSteps ==
  { "congrats-form", "feedback-form", "visa-help", "all-done", "founder-message" }

StillLookingSteps ==
  { "offer", "offer-accepted", "usage-questions", "detailed-reasons", "sorry-to-go" }

\* C28: on a step of the job-found path foundJob is true, on a step of the
\* still-looking path foundJob is false.
C28_StepAgreesWithFoundJob ==
  /\ currentStep \in JobFoundSteps => formData.foundJob = "true"
  /\ currentStep \in StillLookingSteps => formData.foundJob = "false"

\* After job-found, an answer, Back and still-looking.
C28_Witness ==
  /\ isOpen
  /\ currentStep = "offer"
  /\ formData.foundJob = "false"
  /\ formData.usedMigrateMate # NULL

\* The rule of detailed-reasons for the reason of fd.
DetailsRule(fd) ==
  IF fd.cancellationReason = "too-expensive"
  THEN IsValidNumber(fd.reasonDetails)
  ELSE Len(fd.reasonDetails) >= MinDetailsLen

\* C29: all-done and founder-message are shown with the four answers of
\* congrats-form, a non-blank visaType and visaHelp true, respectively
\* false; sorry-to-go is shown with the three usage answers, a reason and
\* details that satisfy the rule of that reason.
C29_TerminalStepHasValidData ==
  /\ currentStep \in { "all-done", "founder-message" }
       => /\ AllFourCongratsAnswers(formData)
          /\ NonBlank(formData.visaType)
          /\ formData.visaHelp = (IF currentStep = "all-done" THEN "true" ELSE "false")
  /\ currentStep = "sorry-to-go"
       => /\ AllThreeUsageAnswers(formData)
          /\ formData.cancellationReason \in reasonOptions
          /\ DetailsRule(formData)

\* C30: selecting a reason sets cancellationReason, empties reasonDetails,
\* reasonError and detailsError and leaves every other field, the step and
\* the history as they were; whenever cancellationReason changes,
\* reasonDetails is empty afterwards.
C30_SelectReasonResetsDetails ==
  [][ /\ \A r \in reasonOptions :
           SelectReason(r)
           => /\ formData'.cancellationReason = r
              /\ formData'.reasonDetails = <<>>
              /\ formData'.reasonError = ""
              /\ formData'.detailsError = ""
              /\ \A f \in DOMAIN formData \ { "cancellationReason", "reasonDetails",
                                                 "reasonError", "detailsError" } :
                    formData'[f] = formData[f]
              /\ UNCHANGED << currentStep, stepHistory >>
      /\ formData'.cancellationReason # formData.cancellationReason
           => formData'.reasonDetails = <<>>
    ]_vars

\* A reason is selected on detailed-reasons and no details are typed yet.
C30_Witness ==
  /\ isOpen
  /\ currentStep = "detailed-reasons"
  /\ formData.cancellationReason = "other"
  /\ formData.reasonDetails = <<>>
  /\ formData.detailsError = ""
  /\ AllThreeUsageAnswers(formData)

OnceOnlySteps ==
  { "initial", "congrats-form", "feedback-form", "visa-help", "all-done",
    "founder-message", "offer-accepted", "sorry-to-go" }

Occurrences(step) ==
  Cardinality({ i \in 1..Len(stepHistory) : stepHistory[i] = step })

\* C31: every step other than offer, usage-questions and detailed-reasons
\* occurs at most once in the history; whatever the length of the history,
\* declining on offer appends usage-questions, on usage-questions with its
\* three answers taking the discount appends offer and Continue appends
\* detailed-reasons, and on detailed-reasons with a valid form taking the
\* discount appends offer: every history that ends in the loop has a longer
\* successor.
C31_OnlyStillLookingLoopRepeats ==
  /\ \A s \in OnceOnlySteps : Occurrences(s) <= 1
  /\ (isOpen /\ currentStep = "offer")
       => ENABLED (handleOfferResponse(FALSE)
                     /\ stepHistory' = Append(stepHistory, "usage-questions"))
  /\ ( /\ isOpen /\ currentStep = "usage-questions"
       /\ AllThreeUsageAnswers(formData) )
       => /\ ENABLED (UsageHandleGetDiscount
                        /\ stepHistory' = Append(stepHistory, "offer"))
          /\ ENABLED (UsageHandleContinue
                        /\ stepHistory' = Append(stepHistory, "detailed-reasons"))
  /\ ( /\ isOpen /\ currentStep = "detailed-reasons"
       /\ validateReasonsForm(formData).ok )
       => ENABLED (ReasonsHandleGetDiscount
                     /\ stepHistory' = Append(stepHistory, "offer"))

\* Both loops were run: offer is in the history four times, usage-questions
\* three times and detailed-reasons twice.
C31_Witness ==
  /\ isOpen
  /\ stepHistory = << "initial", "offer", "usage-questions", "offer",
                      "usage-questions", "detailed-reasons", "offer",
                      "usage-questions", "detailed-reasons", "offer" >>

EmptyUserId == User(<<>>)

\* C32: when the effect runs for an open wizard with the userId "", after
\* the wizard was opened or its userId changed to "", it can assign A and it
\* can assign B.
C32_EmptyUserIdIsAnonymous ==
  \A v \in { "A", "B" } :
    (isOpen /\ userId = EmptyUserId /\ EffectDue)
      => ENABLED (useEffect /\ Kept /\ downsellVariant' = v)

\* The wizard is open for the userId "" with B, which the parity of 0 would
\* not give.
C32_Witness ==
  /\ isOpen
  /\ ~EffectDue
  /\ userId = EmptyUserId
  /\ downsellVariant = "B"
  /\ SumCharCodes(userId.chars) % 2 = 0

\* C33: the progress shown has 1 <= current <= total = 3, and current = 3
\* exactly on the four terminal steps.
C33_ProgressIndicator ==
  /\ 1 <= getProgressInfo.current
  /\ getProgressInfo.current <= getProgressInfo.total
  /\ getProgressInfo.total = 3
  /\ getProgressInfo.current = 3 <=> currentStep \in TerminalSteps

\* A terminal step reached after the loop: four steps taken, "Step 3 of 3".
C33_Witness ==
  /\ isOpen
  /\ stepHistory = << "initial", "offer", "usage-questions", "offer",
                      "offer-accepted" >>
  /\ getProgressInfo.current = 3

====
